---- MODULE Spec2Model ----
(***************************************************************************)
(* The section scheduler of optimizer.py as a state machine: one batch run *)
(* load -> build -> solve -> output.  The CP-SAT search is modelled by the *)
(* set of assignments that satisfy the constraints the script posts; the   *)
(* solver returns one of them (an optimal one with status OPTIMAL, any one *)
(* with status FEASIBLE), or no assignment at all.                         *)
(***************************************************************************)
EXTENDS Integers, Sequences, FiniteSets, TLC

VARIABLES pc, tracks, trains, error, modelCreated, horizon,
          start_vars, end_vars, track_assignments, weights,
          status, solution, last_section_exit,
          extracted, output_data, output_file, printed

vars == <<pc, tracks, trains, error, modelCreated, horizon,
          start_vars, end_vars, track_assignments, weights,
          status, solution, last_section_exit,
          extracted, output_data, output_file, printed>>

(***************************************************************************)
(* Bounds of the explored inputs.                                          *)
(***************************************************************************)
MaxTrains == 2
MaxTracks == 2

(***************************************************************************)
(* Generic helpers.                                                        *)
(***************************************************************************)
Range(f) == {f[x] : x \in DOMAIN f}

SetMax(S) == CHOOSE x \in S : \A y \in S : y <= x

SetMin(S) == CHOOSE x \in S : \A y \in S : x <= y

\* dict.update / dict item assignment: the fields of u override those of t
Update(t, u) ==
    [f \in (DOMAIN t) \cup (DOMAIN u) |-> IF f \in DOMAIN u THEN u[f] ELSE t[f]]

\* Python int() of a quotient: truncation toward zero
TruncDiv(a, b) ==
    IF (a >= 0) = (b > 0) THEN (IF a >= 0 THEN a ELSE -a) \div (IF b > 0 THEN b ELSE -b)
    ELSE -((IF a >= 0 THEN a ELSE -a) \div (IF b > 0 THEN b ELSE -b))

(***************************************************************************)
(* Helpers of the script.  A clock string "HH:MM" is the sequence of its   *)
(* colon-separated numeric fields; a 12-hour clock string is the record of *)
(* its %I, %M and %p parts.                                                *)
(***************************************************************************)
parse_time_ok(time_str) == Len(time_str) = 2

parse_time_to_minutes(time_str) == time_str[1] * 60 + time_str[2]

minutes_to_clock(minutes) ==
    LET ofDay == minutes % (24 * 60)
        h24   == ofDay \div 60
    IN  [I |-> IF h24 % 12 = 0 THEN 12 ELSE h24 % 12,
         M |-> ofDay % 60,
         p |-> IF h24 < 12 THEN "AM" ELSE "PM"]

(***************************************************************************)
(* Inputs: what dataset.json may hold.                                     *)
(***************************************************************************)
TrackChoices ==
    { [length_km |-> 10,  speed_kmph |-> 30],
      [length_km |-> 601, speed_kmph |-> 60],
      [length_km |-> 10,  speed_kmph |-> 0],
      [length_km |-> 10,  speed_kmph |-> -30] }

TrainChoices ==
    { [train_name |-> "A", arrival_time |-> <<0, 0>>,   priority |-> 1],
      [train_name |-> "A", arrival_time |-> <<23, 50>>, priority |-> 10],
      [train_name |-> "B", arrival_time |-> <<0, 0>>,   priority |-> 10],
      [train_name |-> "B", arrival_time |-> <<7>>,      priority |-> 1],
      [train_name |-> "B", arrival_time |-> <<0, 0>>] }

SeqsUpTo(S, n) == UNION {[1..k -> S] : k \in 0..n}

None == "None"

Init ==
    /\ pc = "load"
    /\ tracks \in SeqsUpTo(TrackChoices, MaxTracks)
    /\ trains \in SeqsUpTo(TrainChoices, MaxTrains)
    /\ error = "none"
    /\ modelCreated = FALSE
    /\ horizon = 0
    /\ start_vars = <<>>
    /\ end_vars = <<>>
    /\ track_assignments = <<>>
    /\ weights = <<>>
    /\ status = None
    /\ solution = <<>>
    /\ last_section_exit = 0
    /\ extracted = <<>>
    /\ output_data = None
    /\ output_file = <<>>
    /\ printed = None

(***************************************************************************)
(* Load input, lines 22-35.                                                *)
(***************************************************************************)
\* the exception line 32 raises on track tr, "none" when it computes
TrackError(tr) ==
    IF "length_km" \notin DOMAIN tr \/ "speed_kmph" \notin DOMAIN tr THEN "KeyError"
    ELSE IF tr.speed_kmph = 0 THEN "ZeroDivisionError"
    ELSE "none"

\* time_min of line 32; the quotients of the explored tracks are exact in
\* floating point, so int() of the float is the truncated exact quotient
Duration(tr) == TruncDiv(tr.length_km * 60, tr.speed_kmph)

\* the exception the body of the loop of lines 29-35 raises on train t
TrainLoadError(t) ==
    LET badTracks == {k \in 1..Len(tracks) : TrackError(tracks[k]) # "none"}
    IN  IF badTracks # {} THEN TrackError(tracks[SetMin(badTracks)])
        ELSE IF "arrival_time" \notin DOMAIN t THEN "KeyError"
        ELSE IF ~parse_time_ok(t.arrival_time) THEN "ValueError"
        ELSE "none"

\* lines 30-35 on one train
Derived(t) ==
    Update(t, [durations   |-> [k \in 1..Len(tracks) |-> Duration(tracks[k])],
               arrival_min |-> parse_time_to_minutes(t.arrival_time)])

Load ==
    /\ pc = "load"
    /\ LET bad   == {i \in 1..Len(trains) : TrainLoadError(trains[i]) # "none"}
           first == IF bad = {} THEN Len(trains) + 1 ELSE SetMin(bad)
       IN  /\ trains' = [i \in 1..Len(trains) |->
                            IF i < first THEN Derived(trains[i]) ELSE trains[i]]
           /\ error' = IF bad = {} THEN "none" ELSE TrainLoadError(trains[first])
           /\ pc' = IF bad = {} THEN "build" ELSE "failed"
    /\ UNCHANGED <<tracks, modelCreated, horizon, start_vars, end_vars,
                   track_assignments, weights, status, solution,
                   last_section_exit, extracted, output_data, output_file, printed>>

(***************************************************************************)
(* Build the CP-SAT model and its objective, lines 40-99.  The decision    *)
(* variables created for the i-th train record (start, end, one boolean    *)
(* per track) are identified by i; the dictionaries of lines 47-49 map a   *)
(* train_name to the record whose variables were stored under it last.     *)
(***************************************************************************)
Buffer == 600

WeightBase == 10

\* lines 43-45
Horizon(trs) ==
    LET latest_arrival == SetMax({trs[i].arrival_min : i \in 1..Len(trs)})
        longest_run    == SetMax({SetMax(Range(trs[i].durations)) : i \in 1..Len(trs)})
    IN  latest_arrival + longest_run + Buffer

\* start_vars / end_vars / track_assignments after the first n iterations of
\* the loop of lines 52-80: dict[name] = ... keeps the last record stored
KeyedByName(trs, n) ==
    [name \in {trs[i].train_name : i \in 1..n} |->
        SetMax({i \in 1..n : trs[i].train_name = name})]

\* line 96
Weight(t) == WeightBase - t.priority

Build ==
    /\ pc = "build"
    /\ modelCreated' = TRUE
    /\ LET n        == Len(trains)
           empty    == n = 0 \/ Len(tracks) = 0
           noName   == {i \in 1..n : "train_name" \notin DOMAIN trains[i]}
           named    == IF empty THEN 0
                       ELSE IF noName = {} THEN n ELSE SetMin(noName) - 1
           noPrio   == {i \in 1..n : "priority" \notin DOMAIN trains[i]}
           weighted == IF empty \/ noName # {} THEN 0
                       ELSE IF noPrio = {} THEN n ELSE SetMin(noPrio) - 1
       IN  /\ horizon' = IF empty THEN horizon ELSE Horizon(trains)
           /\ start_vars' = KeyedByName(trains, named)
           /\ end_vars' = KeyedByName(trains, named)
           /\ track_assignments' = KeyedByName(trains, named)
           /\ weights' = [i \in 1..weighted |-> Weight(trains[i])]
           /\ error' = IF empty THEN "ValueError"
                       ELSE IF noName # {} \/ noPrio # {} THEN "KeyError"
                       ELSE "none"
           /\ pc' = IF empty \/ noName # {} \/ noPrio # {} THEN "failed" ELSE "solve"
    /\ UNCHANGED <<tracks, trains, status, solution, last_section_exit,
                   extracted, output_data, output_file, printed>>

(***************************************************************************)
(* The constraints posted by lines 52-84, as the set of values the solver  *)
(* may give to the variables of each train record.                         *)
(***************************************************************************)
\* enumerate(tracks), line 65
TrackIds == 0..(Len(tracks) - 1)

\* IntervalEnds as a model that drops the condition on the active track would
\* have it: end may be start plus the duration of any track
IntervalEnds_AnyTrack(start, duration) ==
    {start + Duration(tracks[k]) : k \in 1..Len(tracks)}

\* line 69, NewOptionalIntervalVar(start, duration, end, b) with b true:
\* a present interval has a non-negative size and ends at start + size
IntervalEnds(start, duration) ==
    IF duration >= 0 THEN {start + duration} ELSE {}

\* lines 73-79: end is the maximum of the end candidates; the candidate of
\* the active track is start + duration, the candidates of the other tracks
\* are free in 0..horizon
MaxEqualityEnds(start, duration) ==
    IF Len(tracks) = 1 THEN {start + duration} ELSE (start + duration)..horizon

\* lines 83-84, AddNoOverlap over the present intervals of each track: of
\* two intervals on one track, one ends no later than the other starts
NoOverlap(sol) ==
    \A i, j \in DOMAIN sol :
        (i < j /\ sol[i].track = sol[j].track)
            => (sol[i].end <= sol[j].start \/ sol[j].end <= sol[i].start)

\* the model of lines 52-84: sol[i] holds the values of the variables of the
\* i-th record (its start, its end, the one track whose boolean is true)
Satisfies(sol) ==
    /\ \A i \in 1..Len(trains) :
          LET duration == trains[i].durations[sol[i].track + 1]
          IN  /\ sol[i].start \in 0..horizon
              /\ sol[i].end \in 0..horizon
              /\ sol[i].start >= trains[i].arrival_min
              /\ sol[i].track \in TrackIds
              /\ sol[i].end \in IntervalEnds(sol[i].start, duration)
              /\ sol[i].end \in MaxEqualityEnds(sol[i].start, duration)
    /\ NoOverlap(sol)

(***************************************************************************)
(* The assignments the search is taken to visit: the trains are put on     *)
(* tracks one after the other, in any order and on any track, each         *)
(* entering once it has arrived, has been held for h minutes (h is 0 or    *)
(* Hold, the same for all trains of an assignment) and its track is free.  *)
(* Moving the trains of any assignment that satisfies  *)
(* the model to the left gives one of these with no hold, so the model has *)
(* a solution exactly if one of these satisfies it; and since no weight of *)
(* the explored inputs is negative (priority <= 10), the least objective   *)
(* value over these is the least over all assignments.                     *)
(***************************************************************************)
Hold == 1

Holds == {0, Hold}

\* schedule sched (a function from record numbers to values) with record i
\* put on track k after a hold of h minutes
Place(sched, i, k, h) ==
    LET duration == trains[i].durations[k + 1]
        busy     == {sched[j].end : j \in {x \in DOMAIN sched : sched[x].track = k}}
        s        == SetMax({trains[i].arrival_min + h} \cup busy)
    IN  { [j \in (DOMAIN sched) \cup {i} |->
              IF j = i THEN [track |-> k, start |-> s, end |-> e] ELSE sched[j]] :
          e \in IntervalEnds(s, duration) \cap MaxEqualityEnds(s, duration) }

RECURSIVE Schedules(_, _)
Schedules(S, h) ==
    IF S = {} THEN {<<>>}
    ELSE UNION { UNION { UNION { Place(sched, i, k, h) : k \in TrackIds } :
                         sched \in Schedules(S \ {i}, h) } :
                 i \in S }

\* the visited assignments that satisfy the model
Assignments ==
    {sol \in UNION {Schedules(1..Len(trains), h) : h \in Holds} : Satisfies(sol)}

RECURSIVE WeightedSum(_, _, _)
WeightedSum(w, sol, n) ==
    IF n = 0 THEN 0 ELSE w[n] * sol[n].end + WeightedSum(w, sol, n - 1)

\* lines 94-99: sum(weighted_completion)
Objective(sol) == WeightedSum(weights, sol, Len(sol))

(***************************************************************************)
(* Solve, lines 104-106: within the time limit the search proves an        *)
(* assignment optimal, or proves there is none, or it stops with the best  *)
(* assignment found so far, or with none (status UNKNOWN).                 *)
(***************************************************************************)
Solve ==
    /\ pc = "solve"
    /\ LET sols == Assignments
           best == SetMin({Objective(sol) : sol \in sols})
       IN  \/ \E sol \in sols :
                /\ status' \in (IF Objective(sol) = best THEN {"OPTIMAL", "FEASIBLE"}
                                ELSE {"FEASIBLE"})
                /\ solution' = sol
                /\ last_section_exit' = SetMax({sol[i].end : i \in DOMAIN sol})
           \/ /\ status' \in (IF sols = {} THEN {"INFEASIBLE", "UNKNOWN"} ELSE {"UNKNOWN"})
              /\ UNCHANGED <<solution, last_section_exit>>
    /\ pc' = "output"
    /\ UNCHANGED <<tracks, trains, error, modelCreated, horizon, start_vars, end_vars,
                   track_assignments, weights, extracted, output_data, output_file,
                   printed>>

(***************************************************************************)
(* Output, lines 111-135.                                                  *)
(***************************************************************************)
\* line 113
Published(st) == st \in {"OPTIMAL", "FEASIBLE"}

\* lines 115-118: the values read for train record t, by its name
Extract(t) ==
    [s            |-> solution[start_vars[t.train_name]].start,
     e            |-> solution[end_vars[t.train_name]].end,
     chosen_track |-> solution[track_assignments[t.train_name]].track]

\* lines 120-125
Enriched(t, x) ==
    Update(t, [section_entry_time |-> minutes_to_clock(x.s),
               section_exit_time  |-> minutes_to_clock(x.e),
               assigned_track     |-> x.chosen_track + 1])

\* NoSolutionFile as a failure branch that dumps the empty template of line
\* 111 would have it
NoSolutionFile_WritesTemplate(data) == <<data>>

\* lines 134-135: what the failure branch leaves in output.json; <<>> is no
\* file, <<data>> a file holding data
NoSolutionFile(data) == <<>>

Output ==
    /\ pc = "output"
    /\ IF Published(status)
       THEN /\ extracted' = [i \in 1..Len(trains) |-> Extract(trains[i])]
            /\ output_data' =
                   [trains |-> [i \in 1..Len(trains) |-> Enriched(trains[i], extracted'[i])],
                    last_section_clearance_time |-> minutes_to_clock(last_section_exit)]
            /\ output_file' = <<output_data'>>
            /\ printed' = "Section schedule saved to output.json"
       ELSE /\ output_data' = [trains |-> <<>>, last_section_clearance_time |-> None]
            /\ output_file' = NoSolutionFile(output_data')
            /\ printed' = "No feasible solution found."
            /\ UNCHANGED extracted
    /\ pc' = "done"
    /\ UNCHANGED <<tracks, trains, error, modelCreated, horizon, start_vars, end_vars,
                   track_assignments, weights, status, solution, last_section_exit>>

Next == Load \/ Build \/ Solve \/ Output

Spec == Init /\ [][Next]_vars

(***************************************************************************)
(* Properties.                                                             *)
(***************************************************************************)
Finished == pc = "done" /\ Published(status)

Records == 1..Len(trains)

\* release_t: the arrival_time of the i-th record in minutes
Release(i) == trains[i].arrival_min

\* duration of the track the i-th output record names (1-based)
AssignedDuration(i) == trains[i].durations[output_data.trains[i].assigned_track]

DistinctNames ==
    \A i, j \in Records :
        (i # j /\ "train_name" \in DOMAIN trains[i] /\ "train_name" \in DOMAIN trains[j])
            => trains[i].train_name # trains[j].train_name

\* C1: in a published schedule any two distinct records with the same
\* assigned_track have disjoint occupancy intervals [entry, exit): one exits
\* no later than the other enters.
C1_PublishedNoOverlap ==
    Finished =>
        \A i, j \in Records :
            (i # j /\ output_data.trains[i].assigned_track
                        = output_data.trains[j].assigned_track)
                => (extracted[i].e <= extracted[j].s \/ extracted[j].e <= extracted[i].s)

\* C2: in a published schedule every record's exit minute is its entry minute
\* plus the duration of its assigned track, with no slack either way, and the
\* clock strings written are those of these two minutes.
C2_ExitIsEntryPlusDuration ==
    Finished =>
        \A i \in Records :
            /\ extracted[i].e = extracted[i].s + AssignedDuration(i)
            /\ output_data.trains[i].section_exit_time
                 = minutes_to_clock(extracted[i].s + AssignedDuration(i))

\* C2 happens: a train published on the shorter of two tracks, so that the
\* end candidate of the other track could have carried slack
C2_Witness ==
    /\ Finished
    /\ Len(tracks) = 2
    /\ \E i \in Records :
          /\ AssignedDuration(i) < SetMax(Range(trains[i].durations))
          /\ extracted[i].e = extracted[i].s + AssignedDuration(i)

\* C3: in a published schedule every record's entry minute is at or after
\* that record's own release time.
C3_EntryAfterRelease ==
    Finished => \A i \in Records : extracted[i].s >= Release(i)

\* C4: with at least one track (and every speed positive) the solver never
\* reports INFEASIBLE: the horizon leaves room for a serial ordering.
C4_NeverInfeasible ==
    (/\ pc \in {"output", "done"}
     /\ Len(tracks) >= 1
     /\ \A k \in 1..Len(tracks) : tracks[k].speed_kmph > 0
     /\ DistinctNames)
        => status # "INFEASIBLE"

\* max(1, 10 - priority), the weight the specification asks for
ClampedWeight(t) == IF WeightBase - t.priority >= 1 THEN WeightBase - t.priority ELSE 1

\* C5: every coefficient of the minimized sum is max(1, 10 - priority), so at
\* least 1 for every priority.
C5_WeightsClamped ==
    pc \in {"solve", "output", "done"} =>
        \A i \in Records : weights[i] = ClampedWeight(trains[i]) /\ weights[i] >= 1

RECURSIVE ClampedSum(_, _)
ClampedSum(ends, n) ==
    IF n = 0 THEN 0 ELSE ClampedWeight(trains[n]) * ends[n] + ClampedSum(ends, n - 1)

\* C6: the weighted completion sum of a published schedule (weights max(1, 10 -
\* priority)) is at most that of every other assignment satisfying the
\* constraints.  Stated for the runs that favour the claim: the solver proved
\* optimality and all train names differ.
C6_PublishedIsBest ==
    (pc = "done" /\ status = "OPTIMAL" /\ DistinctNames) =>
        \A alt \in Assignments :
            ClampedSum([i \in Records |-> extracted[i].e], Len(trains))
                <= ClampedSum([i \in Records |-> alt[i].end], Len(trains))

\* C7: output.json is written only when the status is OPTIMAL or FEASIBLE, and
\* then holds one record per input train; a run that ends with any other
\* status, or with an exception, leaves no file at all.
C7_OutputOnlyOnSuccess ==
    /\ output_file # <<>> =>
          (Finished /\ Len(output_file[1].trains) = Len(trains))
    /\ (pc = "done" /\ ~Published(status)) => output_file = <<>>
    /\ pc = "failed" => output_file = <<>>

\* C7 happens: a run that ended with no solution and wrote nothing
C7_Witness ==
    /\ pc = "done"
    /\ status = "INFEASIBLE"
    /\ printed = "No feasible solution found."
    /\ output_file = <<>>

WellFormedTrains ==
    \A i \in Records :
        /\ {"train_name", "arrival_time", "priority"} \subseteq DOMAIN trains[i]
        /\ parse_time_ok(trains[i].arrival_time)

WellFormedTracks ==
    \A k \in 1..Len(tracks) :
        /\ {"length_km", "speed_kmph"} \subseteq DOMAIN tracks[k]
        /\ tracks[k].speed_kmph > 0

\* C8: with no track and at least one (well-formed) train the run reaches the
\* solve stage, reports that there is no solution and writes no output.
C8_ZeroTracksReported ==
    (Len(tracks) = 0 /\ Len(trains) >= 1 /\ WellFormedTrains /\ pc \in {"done", "failed"})
        => /\ pc = "done"
           /\ status \in {"INFEASIBLE", "UNKNOWN"}
           /\ printed = "No feasible solution found."
           /\ output_file = <<>>

\* C9: an input with a missing field, a malformed arrival_time or a speed that
\* is not positive fails the run before the model is constructed, and nothing
\* is written (stated for inputs with at least one train and one track).
C9_InvalidInputFailsEarly ==
    (Len(trains) >= 1 /\ Len(tracks) >= 1 /\ ~(WellFormedTrains /\ WellFormedTracks))
        => /\ ~modelCreated
           /\ pc \notin {"solve", "output", "done"}
           /\ output_file = <<>>

\* C10: every record is published from the decision variables created for that
\* very record, also when train names repeat, so no two records are published
\* from the same variables.
C10_PublishedFromOwnVariables ==
    Finished =>
        \A i \in Records :
            /\ start_vars[trains[i].train_name] = i
            /\ extracted[i] = [s            |-> solution[i].start,
                               e            |-> solution[i].end,
                               chosen_track |-> solution[i].track]
====
